---------------------------- MODULE Spec2Model ----------------------------
(***************************************************************************)
(* goforge: the template materialization engine of internal/generator.     *)
(*                                                                         *)
(* The newest variant of the generator (the one with Options.IncludeDB and *)
(* processConditionalBlocks) is the second Go file held in                 *)
(* src/internal/generator/generator_test.go, lines 152-512; the model is   *)
(* translated from it.  Go strings are TLA+ strings: Len, SubSeq and \o    *)
(* act on them byte for byte, so Index and ReplaceAll are computed as the  *)
(* strings package computes them.  The one non-ASCII rune of the source    *)
(* (U+1F4E5, in two echo lines) is written {U+1F4E5}.                      *)
(***************************************************************************)
EXTENDS Integers, Sequences, FiniteSets, TLC

VARIABLES
  templateFS,    \* the embedded template tree: path -> [isDir, data, entries]
  opts,          \* the Options value of the current call
  disk,          \* the file system: path -> [isDir, data]
  pc,            \* where the current call is
  todo,          \* fs.WalkDir: the entries still to visit, next first
  replacements,  \* the substitution map of the current call
  err,           \* the error the call returns (NoErr: nil)
  stdout,        \* the progress lines printed so far
  faults,        \* the I/O operations that failed during the current call
  runs,          \* the calls made so far: [opts, fresh, result]
  segs,          \* the template text under processConditionalBlocks, by segment
  content,       \* the text handed to processConditionalBlocks
  out,           \* the text processConditionalBlocks returned
  cmd,           \* the 'new' command: its arguments, flags, locals and result
  visited        \* the paths fs.WalkDir has called the callback on, in this call

vars == <<templateFS, opts, disk, pc, todo, replacements, err, stdout, faults,
          runs, segs, content, out, cmd, visited>>

-----------------------------------------------------------------------------
(* Bounds of the model *)

\* the most segments a generated template text is made of
MaxSegs == 3

\* the most calls of GenerateWithOptions in one behaviour
MaxRuns == 2

-----------------------------------------------------------------------------
(* package strings / path/filepath *)

MinOf(S) == CHOOSE i \in S : \A j \in S : i <= j

MaxOf(S) == CHOOSE i \in S : \A j \in S : i >= j

\* strings.Index: the byte offset of the first instance of substr, or -1
Index(s, substr) ==
  LET hits == {i \in 0..(Len(s) - Len(substr)) :
                  SubSeq(s, i + 1, i + Len(substr)) = substr}
  IN IF hits = {} THEN -1 ELSE MinOf(hits)

\* strings.Contains
Contains(s, substr) ==
  \E i \in 0..(Len(s) - Len(substr)) : SubSeq(s, i + 1, i + Len(substr)) = substr

\* strings.HasPrefix
HasPrefix(s, prefix) ==
  Len(s) >= Len(prefix) /\ SubSeq(s, 1, Len(prefix)) = prefix

\* strings.HasSuffix
HasSuffix(s, suffix) ==
  Len(s) >= Len(suffix) /\ SubSeq(s, Len(s) - Len(suffix) + 1, Len(s)) = suffix

\* a slip: the prefix is left where it is
TrimPrefixKept(s, prefix) == s

\* strings.TrimPrefix
TrimPrefix(s, prefix) ==
  IF HasPrefix(s, prefix) THEN SubSeq(s, Len(prefix) + 1, Len(s)) ELSE s

\* strings.TrimSuffix
TrimSuffix(s, suffix) ==
  IF HasSuffix(s, suffix) THEN SubSeq(s, 1, Len(s) - Len(suffix)) ELSE s

\* strings.ReplaceAll for a non-empty old: the non-overlapping instances of
\* old, found left to right, are replaced; the inserted text is not rescanned
RECURSIVE ReplaceAll(_, _, _)
ReplaceAll(s, old, new) ==
  LET i == Index(s, old)
  IN IF i = -1 THEN s
     ELSE SubSeq(s, 1, i) \o new
            \o ReplaceAll(SubSeq(s, i + Len(old) + 1, Len(s)), old, new)

UpperLetters == "ABCDEFGHIJKLMNOPQRSTUVWXYZ"

LowerLetters == "abcdefghijklmnopqrstuvwxyz"

\* strings.ToLower on ASCII text
RECURSIVE ToLower(_)
ToLower(s) ==
  IF s = "" THEN ""
  ELSE LET c == SubSeq(s, 1, 1)
           u == Index(UpperLetters, c)
       IN (IF u = -1 THEN c ELSE SubSeq(LowerLetters, u + 1, u + 1))
            \o ToLower(SubSeq(s, 2, Len(s)))

\* filepath.Ext: the suffix beginning at the final dot in the final element
\* of path, empty if there is no dot
Ext(path) ==
  LET dots == {i \in 1..Len(path) :
                 /\ SubSeq(path, i, i) = "."
                 /\ \A j \in i..Len(path) : SubSeq(path, j, j) # "/"}
  IN IF dots = {} THEN "" ELSE SubSeq(path, MaxOf(dots), Len(path))

\* filepath.Dir of a clean relative path: everything before the last slash
Dir(path) ==
  LET slashes == {i \in 1..Len(path) : SubSeq(path, i, i) = "/"}
  IN IF slashes = {} THEN "." ELSE SubSeq(path, 1, MaxOf(slashes) - 1)

\* filepath.Join of two clean, non-empty elements
Join(dir, name) == dir \o "/" \o name

-----------------------------------------------------------------------------
(* Constants of the generator *)

placeholderModule == "github.com/goforge/scaffold"

placeholderFrontendScripts == "<!-- FRONTEND_SCRIPTS -->"
placeholderSetupCommand == "<!-- SETUP_COMMAND -->"
placeholderCiSetupCommand == "<!-- CI_SETUP_COMMAND -->"
placeholderDevCommand == "<!-- DEV_COMMAND -->"
placeholderCssWatchCmd == "<!-- CSS_WATCH_COMMAND -->"
placeholderCssBuildCmd == "<!-- CSS_BUILD_COMMAND -->"
placeholderAirBuildCmd == "<!-- AIR_BUILD_CMD -->"
placeholderTailwindPlugin == "<!-- TAILWIND_PLUGIN -->"
placeholderDaisyuiConfig == "<!-- DAISYUI_CONFIG -->"
placeholderDockerSetupRun == "<!-- DOCKER_SETUP_RUN -->"
placeholderDockerBuildCss == "<!-- DOCKER_BUILD_CSS -->"

FrontendHTMX == "htmx"
FrontendHTMXHyperscript == "htmx-hyperscript"
FrontendHTMXAlpine == "htmx-alpine"

CSSFrameworkDaisyUI == "daisyui"
CSSFrameworkTemplUI == "templui"
CSSFrameworkBasecoat == "basecoat"

\* the marker strings of processConditionalBlocks
tagIfDB == "<!-- IF DB -->"
tagIfNotDB == "<!-- IF NOT DB -->"
tagEndIf == "<!-- ENDIF -->"

\* type Options
Options(projectName, modulePath, frontend, cssFramework, includeDB) ==
  [ProjectName |-> projectName, ModulePath |-> modulePath, Frontend |-> frontend,
   CSSFramework |-> cssFramework, IncludeDB |-> includeDB]

-----------------------------------------------------------------------------
(* Conditional blocks *)

\* removeBlock: while a start tag and an end tag are found and the first end
\* tag lies after the first start tag, cut from the start tag to the end of
\* that end tag
RECURSIVE removeBlock(_, _, _)
removeBlock(c, startTag, endTag) ==
  LET startIndex == Index(c, startTag)
      endIndex == Index(c, endTag)
      endTagEnd == endIndex + Len(endTag)
  IN IF startIndex = -1 THEN c
     ELSE IF endIndex = -1 THEN c
     ELSE IF endIndex > startIndex
          THEN removeBlock(SubSeq(c, 1, startIndex)
                             \o SubSeq(c, endTagEnd + 1, Len(c)), startTag, endTag)
          ELSE c

\* removeTags: every start tag and every end tag is deleted, the rest kept
removeTags(c, startTag, endTag) ==
  ReplaceAll(ReplaceAll(c, startTag, ""), endTag, "")

processConditionalBlocks(c, o) ==
  IF o.IncludeDB
  THEN removeBlock(removeTags(c, tagIfDB, tagEndIf), tagIfNotDB, tagEndIf)
  ELSE removeTags(removeBlock(c, tagIfDB, tagEndIf), tagIfNotDB, tagEndIf)

-----------------------------------------------------------------------------
(* The option resolver *)

htmxScript == "<script src=\"/assets/js/htmx.min.js\"></script>"

hyperscriptScript ==
  "\n\t\t\t<!-- Hyperscript -->\n\t\t\t<script src=\"/assets/js/hyperscript.min.js\"></script>"

alpineScript ==
  "\n\t\t\t<!-- Alpine.js -->\n\t\t\t<script defer src=\"/assets/js/alpinejs.min.js\"></script>"

basecoatScript ==
  "\n\t\t\t<!-- Basecoat JS -->\n\t\t\t<script defer src=\"/assets/js/basecoat.min.js\"></script>"

\* a slip of getFrontendScripts: every frontend other than htmx gets the
\* Hyperscript tag
getFrontendScriptsAnyOther(o) ==
  htmxScript
    \o (IF o.Frontend = FrontendHTMXAlpine THEN alpineScript
        ELSE IF o.Frontend # FrontendHTMX THEN hyperscriptScript
        ELSE "")
    \o (IF o.CSSFramework = CSSFrameworkBasecoat THEN basecoatScript ELSE "")

\* a variant of getFrontendScripts that tells templui from daisyui
getFrontendScriptsTemplUI(o) ==
  htmxScript
    \o (IF o.Frontend = FrontendHTMXHyperscript THEN hyperscriptScript
        ELSE IF o.Frontend = FrontendHTMXAlpine THEN alpineScript
        ELSE "")
    \o (IF o.CSSFramework = CSSFrameworkBasecoat THEN basecoatScript
        ELSE IF o.CSSFramework = CSSFrameworkTemplUI THEN alpineScript
        ELSE "")

\* a variant of getFrontendScripts whose value refers to another token
getFrontendScriptsWithToken(o) ==
  htmxScript
    \o (IF o.Frontend = FrontendHTMXHyperscript THEN hyperscriptScript
        ELSE IF o.Frontend = FrontendHTMXAlpine THEN alpineScript
        ELSE "")
    \o (IF o.CSSFramework = CSSFrameworkBasecoat THEN basecoatScript
        ELSE placeholderDaisyuiConfig)

\* getFrontendScripts: the script tags for the selected frontend (local files)
getFrontendScripts(o) ==
  htmxScript
    \o (IF o.Frontend = FrontendHTMXHyperscript THEN hyperscriptScript
        ELSE IF o.Frontend = FrontendHTMXAlpine THEN alpineScript
        ELSE "")
    \o (IF o.CSSFramework = CSSFrameworkBasecoat THEN basecoatScript ELSE "")

htmxDownload ==
  "\n\t@echo \"{U+1F4E5} Downloading Frontend Libraries...\"\n\t@curl -sL -o assets/js/htmx.min.js https://unpkg.com/htmx.org@2.0.4/dist/htmx.min.js"

hyperscriptDownload ==
  "\n\t@curl -sL -o assets/js/hyperscript.min.js https://unpkg.com/hyperscript.org@0.9.14"

alpineDownload ==
  "\n\t@curl -sL -o assets/js/alpinejs.min.js https://unpkg.com/alpinejs@3.14.8/dist/cdn.min.js"

basecoatDownload ==
  "\n\t@curl -sL -o assets/js/basecoat.min.js https://cdn.jsdelivr.net/npm/basecoat-css@latest/dist/basecoat.min.js"

htmxDockerDownload ==
  "RUN curl -sL -o assets/js/htmx.min.js https://unpkg.com/htmx.org@2.0.4/dist/htmx.min.js"

hyperscriptDockerDownload ==
  " && \\\n    curl -sL -o assets/js/hyperscript.min.js https://unpkg.com/hyperscript.org@0.9.14"

alpineDockerDownload ==
  " && \\\n    curl -sL -o assets/js/alpinejs.min.js https://unpkg.com/alpinejs@3.14.8/dist/cdn.min.js"

basecoatDockerDownload ==
  " && \\\n    curl -sL -o assets/js/basecoat.min.js https://cdn.jsdelivr.net/npm/basecoat-css@latest/dist/basecoat.min.js"

\* a slip of the download list: Basecoat's line is chained to the frontend's
\* if / else if, so it is added only when the frontend added nothing
jsDownloadsElseIf(o) ==
  htmxDownload
    \o (IF o.Frontend = FrontendHTMXHyperscript THEN hyperscriptDownload
        ELSE IF o.Frontend = FrontendHTMXAlpine THEN alpineDownload
        ELSE IF o.CSSFramework = CSSFrameworkBasecoat THEN basecoatDownload
        ELSE "")

\* jsDownloads of getReplacements: the Makefile lines that fetch the libraries
jsDownloads(o) ==
  htmxDownload
    \o (IF o.Frontend = FrontendHTMXHyperscript THEN hyperscriptDownload
        ELSE IF o.Frontend = FrontendHTMXAlpine THEN alpineDownload
        ELSE "")
    \o (IF o.CSSFramework = CSSFrameworkBasecoat THEN basecoatDownload ELSE "")

\* a slip of dockerJsDownloads: the Basecoat download left out
dockerJsDownloadsNoBasecoat(o) ==
  htmxDockerDownload
    \o (IF o.Frontend = FrontendHTMXHyperscript THEN hyperscriptDockerDownload
        ELSE IF o.Frontend = FrontendHTMXAlpine THEN alpineDockerDownload
        ELSE "")

\* dockerJsDownloads of getReplacements: the same for the Dockerfile
dockerJsDownloads(o) ==
  htmxDockerDownload
    \o (IF o.Frontend = FrontendHTMXHyperscript THEN hyperscriptDockerDownload
        ELSE IF o.Frontend = FrontendHTMXAlpine THEN alpineDockerDownload
        ELSE "")
    \o (IF o.CSSFramework = CSSFrameworkBasecoat THEN basecoatDockerDownload ELSE "")

setupCmdDaisyUI ==
  "@echo \"{U+1F4E5} Installing Tailwind CSS + DaisyUI...\"\n\t@mkdir -p assets/css assets/js\n\t@cd assets && curl -sL daisyui.com/fast | bash\n\t@mv assets/input.css assets/css/input.css 2>/dev/null || true\n\t@mv assets/output.css assets/css/output.css 2>/dev/null || true\n\t@mv assets/daisyui.mjs assets/js/daisyui.mjs 2>/dev/null || true\n\t@mv assets/daisyui-theme.mjs assets/js/daisyui-theme.mjs 2>/dev/null || true\n\t@mv assets/tailwindcss ./tailwindcss 2>/dev/null || true\n\t@if [ -f assets/css/input.css ]; then \\\n\t\tsed -i.bak 's|./daisyui.mjs|../js/daisyui.mjs|g' assets/css/input.css && rm assets/css/input.css.bak; \\\n\tfi"

setupCmdBasecoat ==
  "@echo \"{U+1F4E5} Installing Tailwind CSS + Basecoat...\"\n\t@mkdir -p assets/css assets/js\n\t@cd assets && curl -sL daisyui.com/fast | bash\n\t@mv assets/tailwindcss ./tailwindcss 2>/dev/null || true\n\t@echo \"Downloading Basecoat CSS...\"\n\t@curl -sL -o assets/css/basecoat.min.css https://cdn.jsdelivr.net/npm/basecoat-css@latest/dist/basecoat.min.css\n\t@echo \"Creating assets/css/index.css...\"\n\t@echo '@import \"tailwindcss\"; @import \"./basecoat.min.css\";' > assets/css/index.css\n\t@echo \"Cleaning up DaisyUI files...\"\n\t@rm assets/input.css assets/output.css assets/daisyui.mjs assets/daisyui-theme.mjs 2>/dev/null || true"

dockerSetupRunDaisyUI ==
  "RUN cd assets && curl -sL daisyui.com/fast | bash\n# Organize assets\nRUN mkdir -p assets/css assets/js && \\\n    mv assets/input.css assets/css/ && \\\n    mv assets/output.css assets/css/ && \\\n    mv assets/daisyui.mjs assets/js/ && \\\n    mv assets/daisyui-theme.mjs assets/js/ && \\\n    mv assets/tailwindcss .\n# Fix imports\nRUN sed -i 's|./daisyui.mjs|../js/daisyui.mjs|g' assets/css/input.css\n# Download JS\n"

dockerSetupRunBasecoat ==
  "RUN cd assets && curl -sL daisyui.com/fast | bash\nRUN mkdir -p assets/css assets/js && \\\n    mv assets/tailwindcss .\nRUN curl -sL -o assets/css/basecoat.min.css https://cdn.jsdelivr.net/npm/basecoat-css@latest/dist/basecoat.min.css\nRUN echo '@import \"tailwindcss\"; @import \"./basecoat.min.css\";' > assets/css/index.css\nRUN rm assets/input.css assets/output.css assets/daisyui* 2>/dev/null || true\n# Download JS\n"

\* the keys of the map getReplacements returns
placeholders ==
  {placeholderFrontendScripts, placeholderSetupCommand, placeholderCiSetupCommand,
   placeholderDockerSetupRun, placeholderDevCommand, placeholderCssWatchCmd,
   placeholderCssBuildCmd, placeholderAirBuildCmd, placeholderDockerBuildCss,
   placeholderTailwindPlugin, placeholderDaisyuiConfig}

\* getReplacements: the DaisyUI values, overridden when the CSS framework
\* is Basecoat
getReplacements(o) ==
  LET basecoat == o.CSSFramework = CSSFrameworkBasecoat
      setupCmd == (IF basecoat THEN setupCmdBasecoat ELSE setupCmdDaisyUI)
                    \o jsDownloads(o)
      dockerSetupRun ==
        (IF basecoat THEN dockerSetupRunBasecoat ELSE dockerSetupRunDaisyUI)
          \o dockerJsDownloads(o)
      devCmd == IF basecoat THEN "@make dev-air"
                ELSE "@make -j2 dev-air dev-tailwind"
      cssWatchCmd ==
        IF basecoat THEN "@echo \"CSS watching handled by Air\""
        ELSE "@./tailwindcss -i assets/css/input.css -o assets/css/output.css --watch"
      cssBuildCmd ==
        IF basecoat
        THEN "@./tailwindcss -i assets/css/index.css -o assets/css/output.css"
        ELSE "@./tailwindcss -i assets/css/input.css -o assets/css/output.css"
      airBuildCmd ==
        IF basecoat
        THEN "templ generate && ./tailwindcss -i ./assets/css/index.css -o ./assets/css/output.css --minify && go build -o ./tmp/main ./cmd/server"
        ELSE "templ generate && go build -o ./tmp/main ./cmd/server"
      dockerBuildCss ==
        IF basecoat
        THEN "RUN ./tailwindcss -i assets/css/index.css -o assets/css/output.css --minify"
        ELSE "RUN ./tailwindcss -i assets/css/input.css -o assets/css/output.css --minify"
      tailwindPlugin == ""
      daisyuiConfig == ""
  IN [k \in placeholders |->
        CASE k = placeholderFrontendScripts -> getFrontendScripts(o)
          [] k = placeholderSetupCommand -> setupCmd
          [] k = placeholderCiSetupCommand -> setupCmd
          [] k = placeholderDockerSetupRun -> dockerSetupRun
          [] k = placeholderDevCommand -> devCmd
          [] k = placeholderCssWatchCmd -> cssWatchCmd
          [] k = placeholderCssBuildCmd -> cssBuildCmd
          [] k = placeholderAirBuildCmd -> airBuildCmd
          [] k = placeholderDockerBuildCss -> dockerBuildCss
          [] k = placeholderTailwindPlugin -> tailwindPlugin
          [] k = placeholderDaisyuiConfig -> daisyuiConfig]

\* the extensions isBinaryFile lists
binaryExtensions ==
  {".png", ".jpg", ".jpeg", ".gif", ".ico", ".webp", ".woff", ".woff2", ".ttf",
   ".eot", ".zip", ".tar", ".gz", ".mjs"}

\* isBinaryFile: by the lower-cased extension of the path
isBinaryFile(path) == ToLower(Ext(path)) \in binaryExtensions

-----------------------------------------------------------------------------
(* Template texts *)

\* A template text is written as a list of segments: plain text, a DB block,
\* a NOT DB block (both closed by the end tag), or a marker on its own.
TextSeg(t) == [kind |-> "text", text |-> t]
DBSeg(t) == [kind |-> "db", text |-> t]
NotDBSeg(t) == [kind |-> "notdb", text |-> t]
MarkerSeg(t) == [kind |-> "marker", text |-> t]

\* the bytes of one segment
Render(seg) ==
  CASE seg.kind = "db" -> tagIfDB \o seg.text \o tagEndIf
    [] seg.kind = "notdb" -> tagIfNotDB \o seg.text \o tagEndIf
    [] OTHER -> seg.text

\* the bytes of a template text
RECURSIVE Flatten(_)
Flatten(sl) == IF sl = <<>> THEN "" ELSE Render(Head(sl)) \o Flatten(Tail(sl))

Segments ==
  {TextSeg("a"), TextSeg("b"), DBSeg("d"), DBSeg("e"), NotDBSeg("n"), NotDBSeg("m"),
   MarkerSeg(tagIfDB), MarkerSeg(tagIfNotDB), MarkerSeg(tagEndIf)}

\* the template texts of at most MaxSegs segments
SegLists == UNION {[1..n -> Segments] : n \in 0..MaxSegs}

\* every block is closed and none is nested: no marker stands on its own
WellFormed(sl) == \A i \in 1..Len(sl) : sl[i].kind # "marker"

\* what pruning is to leave of a well-formed text: the plain text and the
\* inner text of the blocks whose gate holds
RECURSIVE Pruned(_, _)
Pruned(sl, includeDB) ==
  IF sl = <<>> THEN ""
  ELSE (CASE Head(sl).kind = "db" -> IF includeDB THEN Head(sl).text ELSE ""
          [] Head(sl).kind = "notdb" -> IF includeDB THEN "" ELSE Head(sl).text
          [] OTHER -> Head(sl).text)
         \o Pruned(Tail(sl), includeDB)

ModulePaths ==
  {"github.com/x/demo", "a/<!-- DEV_<!-- TAILWIND_PLUGIN -->COMMAND -->"}

Frontends == {FrontendHTMX, FrontendHTMXHyperscript, FrontendHTMXAlpine}

CSSFrameworks == {CSSFrameworkDaisyUI, CSSFrameworkTemplUI, CSSFrameworkBasecoat}

\* the values a caller may put in Options.Frontend and Options.CSSFramework:
\* the known ones and two that are not
FrontendValues == Frontends \cup {"", "react"}

CSSFrameworkValues == CSSFrameworks \cup {"", "bootstrap"}

NoErr == [op |-> "", path |-> ""]

\* the 'new' command not run
NoCmd == [args |-> <<>>, frontendFlag |-> "", cssFrameworkFlag |-> "", pc |-> "none",
          projectName |-> "", modulePath |-> "", err |-> ""]

NoFiles == [p \in {} |-> [isDir |-> FALSE, data |-> ""]]

NoMap == [k \in {} |-> ""]

-----------------------------------------------------------------------------
(* The embedded template tree *)

Dirent(names) == [isDir |-> TRUE, data |-> "", entries |-> names]

File(bytes) == [isDir |-> FALSE, data |-> bytes, entries |-> <<>>]

\* the texts docker-compose.yml may hold
ComposeTexts ==
  {Flatten(<<TextSeg("services:\n"), DBSeg("  db: postgres\n")>>),
   Flatten(<<NotDBSeg("# no database\n"), TextSeg("services:\n"),
             DBSeg("  db: postgres\n")>>),
   Flatten(<<DBSeg("  db: postgres\n"), NotDBSeg("# no database\n")>>),
   Flatten(<<TextSeg("services:\n"), MarkerSeg(tagIfDB), TextSeg("  db: postgres\n")>>)}

\* A template tree as go:embed holds it: every directory lists its entries
\* sorted by name, which is the order fs.WalkDir visits them in.
TemplateTree(compose) ==
  ("templates" :> Dirent(<<"assets", "docker-compose.yml", "go.mod", "internal",
                           "tailwind.config.js">>))
  @@ ("templates/assets" :> Dirent(<<"daisyui.mjs">>))
  @@ ("templates/assets/daisyui.mjs" :>
        File("// github.com/goforge/scaffold <!-- DEV_COMMAND --> <!-- IF DB -->x<!-- ENDIF -->"))
  @@ ("templates/docker-compose.yml" :> File(compose))
  @@ ("templates/go.mod" :> File("module github.com/goforge/scaffold\n"))
  @@ ("templates/internal" :> Dirent(<<"database", "middleware">>))
  @@ ("templates/internal/database" :> Dirent(<<"database.go", "migrations">>))
  @@ ("templates/internal/database/database.go" :>
        File("package database // github.com/goforge/scaffold/internal/config\n"))
  @@ ("templates/internal/database/migrations" :> Dirent(<<"00001_init.sql">>))
  @@ ("templates/internal/database/migrations/00001_init.sql" :>
        File("-- +goose Up\n"))
  @@ ("templates/internal/middleware" :> Dirent(<<"logger.go.tmpl">>))
  @@ ("templates/internal/middleware/logger.go.tmpl" :>
        File("import \"github.com/goforge/scaffold/internal/config\"\n<!-- DEV_COMMAND -->\n"))
  @@ ("templates/tailwind.config.js" :>
        File("    plugins: [<!-- TAILWIND_PLUGIN -->]<!-- DAISYUI_CONFIG -->\n"))

TemplateTrees == {TemplateTree(c) : c \in ComposeTexts}

\* the names a caller gives the project directory
ProjectNames == {"demo", "demo2"}

\* the (Frontend, CSSFramework) pairs the walk is run with
StackChoices ==
  {<<FrontendHTMX, CSSFrameworkDaisyUI>>, <<FrontendHTMXAlpine, CSSFrameworkBasecoat>>,
   <<"react", "bootstrap">>}

-----------------------------------------------------------------------------
(* The file system *)

Dirnode == [isDir |-> TRUE, data |-> ""]

Filenode(bytes) == [isDir |-> FALSE, data |-> bytes]

\* path and the directories above it, the working directory left out
RECURSIVE Chain(_)
Chain(path) == IF Dir(path) = "." THEN {path} ELSE {path} \cup Chain(Dir(path))

\* a slip: os.Mkdir in place of os.MkdirAll, which fails on a path that exists
CanMkdirAllIfMissing(d, path) ==
  /\ path \notin DOMAIN d
  /\ \A a \in Chain(path) : a \in DOMAIN d => d[a].isDir

\* os.MkdirAll succeeds unless the path or a directory above it is a file
CanMkdirAll(d, path) == \A a \in Chain(path) : a \in DOMAIN d => d[a].isDir

\* a slip: what lies under the path is removed before it is created anew
MkdirAllFresh(d, path) ==
  [p \in {q \in DOMAIN d : ~HasPrefix(q, path \o "/")} \cup Chain(path) |->
     IF p \in DOMAIN d THEN d[p] ELSE Dirnode]

\* os.MkdirAll: the missing directories of the chain are created, the
\* existing ones are left as they are
MkdirAll(d, path) ==
  [p \in DOMAIN d \cup Chain(path) |-> IF p \in DOMAIN d THEN d[p] ELSE Dirnode]

\* os.WriteFile needs the parent directory and no directory at the path
CanWriteFile(d, path) ==
  /\ Dir(path) = "." \/ (Dir(path) \in DOMAIN d /\ d[Dir(path)].isDir)
  /\ path \in DOMAIN d => ~d[path].isDir

\* os.WriteFile: the file is created or truncated and holds the bytes
WriteFile(d, path, bytes) ==
  [p \in DOMAIN d \cup {path} |-> IF p = path THEN Filenode(bytes) ELSE d[p]]

-----------------------------------------------------------------------------
(* The tree materializer *)

\* `for k, v := range replacements { content = ReplaceAll(content, k, v) }`:
\* Go iterates a map in an unspecified order, so the loop has a set of
\* possible results.  keys are the keys not yet iterated.  Iterating a key
\* that does not occur in c changes nothing; so a result is fixed by the
\* first key k of the order that occurs in c, and by which of the keys that
\* occur only once k is replaced were iterated before k (spent) or come
\* after it.
RECURSIVE rangeReplaceAll(_, _, _)
rangeReplaceAll(c, m, keys) ==
  LET occurring == {k \in keys : Contains(c, k)}
  IN IF occurring = {} THEN {c}
     ELSE UNION {
            LET c2 == ReplaceAll(c, k, m[k])
                arising == {q \in keys \ occurring : Contains(c2, q)}
            IN UNION {rangeReplaceAll(c2, m, (keys \ {k}) \ spent) :
                        spent \in SUBSET arising}
            : k \in occurring}

\* a slip of the callback: the blocks pruned after the substitutions
fileContentsPruneLast(path, data, o, m) ==
  IF isBinaryFile(path) THEN {data}
  ELSE {processConditionalBlocks(t, o) :
          t \in rangeReplaceAll(ReplaceAll(data, placeholderModule, o.ModulePath),
                                m, DOMAIN m)}

\* a slip of the callback: the binary test left out, every file transformed
fileContentsAllText(path, data, o, m) ==
  rangeReplaceAll(
    ReplaceAll(processConditionalBlocks(data, o), placeholderModule, o.ModulePath),
    m, DOMAIN m)

\* the contents the callback may write for a template file
fileContents(path, data, o, m) ==
  IF isBinaryFile(path) THEN {data}
  ELSE rangeReplaceAll(
         ReplaceAll(processConditionalBlocks(data, o), placeholderModule, o.ModulePath),
         m, DOMAIN m)

\* a slip of the database skip: the flag tested the wrong way round
skipsDatabaseInverted(o, relPath) ==
  o.IncludeDB /\ HasPrefix(relPath, "internal/database")

\* the callback's test for the database directory
skipsDatabase(o, relPath) ==
  ~o.IncludeDB /\ HasPrefix(relPath, "internal/database")

\* a slip of the callback: a failed write is not returned
writeErrorDropped(targetPath) == NoErr

\* the error the callback returns when os.WriteFile fails
writeError(targetPath) == [op |-> "write", path |-> targetPath]

\* what one call of the callback does and returns:
\* [ret, err, disk, printed, faults]
\*   io is what the operating system does with the call's I/O:
\*   "ok", or the operation that fails ("mkdir", "read", "write": nothing is
\*   written, "truncate": the write fails after the file was truncated)
\*   c is the content chosen among fileContents
nilResult(d) == [ret |-> "nil", err |-> NoErr, disk |-> d, printed |-> <<>>, faults |-> <<>>]

errResult(d, e, f) ==
  [ret |-> (IF e = NoErr THEN "nil" ELSE "error"), err |-> e, disk |-> d,
   printed |-> <<>>, faults |-> <<f>>]

walkFn(path, entry, o, d, io, c) ==
  LET relPath == TrimPrefix(path, "templates/")
      targetPath == Join(o.ProjectName, relPath)
      writePath == TrimSuffix(targetPath, ".tmpl")
  IN IF relPath = "" \/ relPath = "templates" THEN nilResult(d)
     ELSE IF skipsDatabase(o, relPath)
       THEN [nilResult(d) EXCEPT !.ret = IF entry.isDir THEN "skipdir" ELSE "nil"]
     ELSE IF entry.isDir
       THEN IF io # "mkdir" /\ CanMkdirAll(d, targetPath)
            THEN nilResult(MkdirAll(d, targetPath))
            ELSE errResult(d, [op |-> "mkdir", path |-> targetPath],
                           [op |-> "mkdir", path |-> targetPath])
     ELSE IF io = "read"
       THEN errResult(d, [op |-> "read", path |-> path], [op |-> "read", path |-> path])
     ELSE IF io \notin {"write", "truncate"} /\ CanWriteFile(d, writePath)
       THEN [nilResult(WriteFile(d, writePath, c)) EXCEPT
               !.printed = <<TrimPrefix(writePath, o.ProjectName \o "/")>>]
     ELSE errResult(IF io = "truncate" /\ CanWriteFile(d, writePath)
                    THEN WriteFile(d, writePath, "") ELSE d,
                    writeError(writePath), [op |-> "write", path |-> writePath])

\* the entries of a directory, as fs.ReadDir returns them
Children(path) ==
  [i \in 1..Len(templateFS[path].entries) |-> path \o "/" \o templateFS[path].entries[i]]

Finish(result) == [runs EXCEPT ![Len(runs)].result = result]

InitWalk ==
  /\ templateFS \in TemplateTrees
  /\ opts \in {Options("demo", m, fc[1], fc[2], TRUE) :
                 m \in ModulePaths, fc \in StackChoices}
  /\ disk = NoFiles
  /\ pc = "idle"
  /\ todo = <<>>
  /\ replacements = NoMap
  /\ err = NoErr
  /\ stdout = <<>>
  /\ faults = <<>>
  /\ runs = <<>>
  /\ cmd = NoCmd
  /\ visited = <<>>
  /\ segs = <<>>
  /\ content = ""
  /\ out = ""

\* the project directories a call may name: one in use, or the next new one
CallNames ==
  {n \in ProjectNames : n = "demo" \/ n \in DOMAIN disk \/ "demo" \in DOMAIN disk}

\* GenerateWithOptions up to the walk: the project directory is created and
\* the replacements are prepared
GenerateWithOptions(o) ==
  /\ pc \in {"idle", "done"}
  /\ pc = "done" => err = NoErr
  /\ Len(runs) < MaxRuns
  /\ opts' = o
  /\ stdout' = <<>>
  /\ visited' = <<>>
  /\ \E io \in {"ok", "mkdir"} :
       IF io = "ok" /\ CanMkdirAll(disk, o.ProjectName)
       THEN /\ disk' = MkdirAll(disk, o.ProjectName)
            /\ replacements' = getReplacements(o)
            /\ todo' = <<"templates">>
            /\ pc' = "walk"
            /\ err' = NoErr
            /\ faults' = <<>>
            /\ runs' = Append(runs, [opts |-> o, fresh |-> o.ProjectName \notin DOMAIN disk,
                                     result |-> "running"])
       ELSE /\ pc' = "done"
            /\ err' = [op |-> "mkdir", path |-> o.ProjectName]
            /\ faults' = <<[op |-> "mkdir", path |-> o.ProjectName]>>
            /\ todo' = <<>>
            /\ replacements' = NoMap
            /\ runs' = Append(runs, [opts |-> o, fresh |-> o.ProjectName \notin DOMAIN disk,
                                     result |-> "failed"])
            /\ UNCHANGED disk
  /\ UNCHANGED <<templateFS, segs, content, out>>

\* the caller: the same module path and stack, any project directory and
\* either value of IncludeDB
Call ==
  /\ \E n \in CallNames, b \in BOOLEAN :
       GenerateWithOptions([opts EXCEPT !.ProjectName = n, !.IncludeDB = b])
  /\ UNCHANGED cmd

\* fs.WalkDir visits the next entry: the callback runs on it; an error ends
\* the walk, SkipDir on a directory leaves its entries out, and after nil a
\* directory's entries are read and come next
WalkDirFn ==
  /\ pc = "walk"
  /\ todo # <<>>
  /\ LET path == Head(todo)
         entry == templateFS[path]
     IN \E io \in {"ok", "mkdir", "read", "write", "truncate", "readdir"},
           c \in (IF entry.isDir THEN {""}
                  ELSE fileContents(path, entry.data, opts, replacements)) :
          /\ io \in (IF entry.isDir THEN {"ok", "mkdir", "readdir"}
                     ELSE {"ok", "read", "write", "truncate"})
          /\ LET r == walkFn(path, entry, opts, disk, io, c)
                 readFails == r.ret = "nil" /\ entry.isDir /\ io = "readdir"
             IN /\ disk' = r.disk
                /\ visited' = visited \o <<path>>
                                \o (IF readFails THEN <<path>> ELSE <<>>)
                /\ stdout' = stdout \o r.printed
                /\ faults' = faults \o r.faults
                              \o (IF readFails THEN <<[op |-> "readdir", path |-> path]>>
                                  ELSE <<>>)
                /\ IF r.ret = "error" \/ readFails
                   THEN /\ pc' = "done"
                        /\ err' = IF readFails THEN [op |-> "readdir", path |-> path]
                                  ELSE r.err
                        /\ runs' = Finish("failed")
                        /\ UNCHANGED todo
                   ELSE /\ todo' = (IF r.ret = "nil" /\ entry.isDir THEN Children(path)
                                    ELSE <<>>) \o Tail(todo)
                        /\ UNCHANGED <<pc, err, runs>>
  /\ UNCHANGED <<cmd, templateFS, opts, replacements, segs, content, out>>

\* fs.WalkDir has visited everything: GenerateWithOptions returns nil
WalkDirReturn ==
  /\ pc = "walk"
  /\ todo = <<>>
  /\ pc' = "done"
  /\ runs' = Finish("ok")
  /\ UNCHANGED <<visited, cmd, templateFS, opts, disk, todo, replacements, err, stdout, faults,
                 segs, content, out>>

Next == Call \/ WalkDirFn \/ WalkDirReturn

Spec == InitWalk /\ [][Next]_vars

-----------------------------------------------------------------------------
(* processConditionalBlocks, applied to every template text *)

InitBlocks ==
  /\ segs \in SegLists
  /\ content = Flatten(segs)
  /\ opts \in {Options("demo", "github.com/x/demo", FrontendHTMX,
                       CSSFrameworkDaisyUI, b) : b \in BOOLEAN}
  /\ pc = "call"
  /\ out = ""
  /\ templateFS = NoFiles
  /\ disk = NoFiles
  /\ todo = <<>>
  /\ replacements = NoMap
  /\ err = NoErr
  /\ stdout = <<>>
  /\ faults = <<>>
  /\ runs = <<>>
  /\ cmd = NoCmd
  /\ visited = <<>>

ProcessConditionalBlocks ==
  /\ pc = "call"
  /\ out' = processConditionalBlocks(content, opts)
  /\ pc' = "return"
  /\ UNCHANGED <<visited, cmd, templateFS, opts, disk, todo, replacements, err, stdout, faults,
                 runs, segs, content>>

NextBlocks == ProcessConditionalBlocks

SpecBlocks == InitBlocks /\ [][NextBlocks]_vars

-----------------------------------------------------------------------------
(* getReplacements, applied to every Options value *)

InitResolver ==
  /\ opts \in {Options("demo", m, f, c, b) :
                 m \in ModulePaths, f \in FrontendValues, c \in CSSFrameworkValues,
                 b \in BOOLEAN}
  /\ pc = "call"
  /\ replacements = NoMap
  /\ segs = <<>>
  /\ content = ""
  /\ out = ""
  /\ templateFS = NoFiles
  /\ disk = NoFiles
  /\ todo = <<>>
  /\ err = NoErr
  /\ stdout = <<>>
  /\ faults = <<>>
  /\ runs = <<>>
  /\ cmd = NoCmd
  /\ visited = <<>>

GetReplacements ==
  /\ pc = "call"
  /\ replacements' = getReplacements(opts)
  /\ pc' = "return"
  /\ UNCHANGED <<visited, cmd, templateFS, opts, disk, todo, err, stdout, faults, runs, segs,
                 content, out>>

NextResolver == GetReplacements

SpecResolver == InitResolver /\ [][NextResolver]_vars

-----------------------------------------------------------------------------
(* Claims about processConditionalBlocks *)

\* C1: with IncludeDB = true, a text whose blocks are well-formed and not
\* nested comes back with every DB block replaced by its inner text and
\* every NOT DB block removed, markers and inner text included.
C1_PrunedWithDB ==
  (pc = "return" /\ opts.IncludeDB /\ WellFormed(segs))
    => out = Pruned(segs, TRUE)

\* C2: with IncludeDB = false, a text whose blocks are well-formed and not
\* nested comes back with every DB block removed, inner text included, and
\* every NOT DB block replaced by its inner text.
C2_PrunedWithoutDB ==
  (pc = "return" /\ ~opts.IncludeDB /\ WellFormed(segs))
    => out = Pruned(segs, FALSE)

-----------------------------------------------------------------------------
(* Claims about the option resolver *)

\* C8: the resolver returns a map for every Options value; an unknown
\* Frontend yields the map of htmx and an unknown CSSFramework the map of
\* daisyui.
C8_UnknownValuesDefault ==
  pc = "return" =>
    /\ DOMAIN replacements = placeholders
    /\ opts.Frontend \notin Frontends
         => replacements = getReplacements([opts EXCEPT !.Frontend = FrontendHTMX])
    /\ opts.CSSFramework \notin CSSFrameworks
         => replacements =
              getReplacements([opts EXCEPT !.CSSFramework = CSSFrameworkDaisyUI])

C8_Witness ==
  /\ pc = "return"
  /\ opts.Frontend = "react"
  /\ opts.CSSFramework = "bootstrap"
  /\ replacements[placeholderFrontendScripts] = htmxScript

Libraries == {"htmx", "hyperscript", "alpinejs", "basecoat"}

\* the script tag of a library in the page shell
ScriptTag(lib) == "src=\"/assets/js/" \o lib \o ".min.js\"></script>"

\* the download of a library in a Makefile or Dockerfile line
DownloadLine(lib) == "curl -sL -o assets/js/" \o lib \o ".min.js https://"

ScriptLibs(m) ==
  {lib \in Libraries : Contains(m[placeholderFrontendScripts], ScriptTag(lib))}

SetupLibs(m) ==
  {lib \in Libraries : Contains(m[placeholderSetupCommand], DownloadLine(lib))}

DockerLibs(m) ==
  {lib \in Libraries : Contains(m[placeholderDockerSetupRun], DownloadLine(lib))}

\* C9: the script tags and the download lines of a Frontend f with a
\* CSSFramework c are those of f alone together with those of c alone;
\* htmx-alpine with basecoat yields htmx, Alpine.js and Basecoat in all three.
C9_AxesComposeAdditively ==
  pc = "return" =>
    LET fAlone == getReplacements([opts EXCEPT !.CSSFramework = CSSFrameworkDaisyUI])
        cAlone == getReplacements([opts EXCEPT !.Frontend = FrontendHTMX])
    IN /\ ScriptLibs(replacements) = ScriptLibs(fAlone) \cup ScriptLibs(cAlone)
       /\ SetupLibs(replacements) = SetupLibs(fAlone) \cup SetupLibs(cAlone)
       /\ DockerLibs(replacements) = DockerLibs(fAlone) \cup DockerLibs(cAlone)
       /\ (opts.Frontend = FrontendHTMXAlpine /\ opts.CSSFramework = CSSFrameworkBasecoat)
            => /\ ScriptLibs(replacements) = {"htmx", "alpinejs", "basecoat"}
               /\ SetupLibs(replacements) = {"htmx", "alpinejs", "basecoat"}
               /\ DockerLibs(replacements) = {"htmx", "alpinejs", "basecoat"}

C9_Witness ==
  /\ pc = "return"
  /\ opts.Frontend = FrontendHTMXAlpine
  /\ opts.CSSFramework = CSSFrameworkBasecoat
  /\ SetupLibs(replacements) = {"htmx", "alpinejs", "basecoat"}

-----------------------------------------------------------------------------
(* Claims about the tree materializer *)

TemplateFiles == {p \in DOMAIN templateFS : ~templateFS[p].isDir}

RelPath(p) == TrimPrefix(p, "templates/")

\* the output path of a template file
OutputPath(o, p) == TrimSuffix(Join(o.ProjectName, RelPath(p)), ".tmpl")

\* a relative path that is the database directory or lies in it
UnderDatabase(rel) == rel = "internal/database" \/ HasPrefix(rel, "internal/database/")

\* the template files a call with Options o leaves out
Pruned_Out(o, p) == ~o.IncludeDB /\ UnderDatabase(RelPath(p))

\* the template text files a call with Options o writes
TextFilesWritten(o) ==
  {p \in TemplateFiles : ~isBinaryFile(p) /\ ~Pruned_Out(o, p)}

\* the last call has returned nil
Succeeded == pc = "done" /\ err = NoErr /\ runs # <<>>

\* validateModulePath: not empty, and with a slash
ValidModulePath(m) == m # "" /\ Contains(m, "/")

\* the offset of the first opening marker of s, or -1
FirstOpen(s) ==
  LET opens == {i \in {Index(s, tagIfDB), Index(s, tagIfNotDB)} : i # -1}
  IN IF opens = {} THEN -1 ELSE MinOf(opens)

\* the blocks of a text are well-formed and not nested: every opening
\* marker is followed by an end marker before the next opening marker, and
\* no end marker stands without its opening marker
RECURSIVE WellFormedText(_)
WellFormedText(s) ==
  LET open == FirstOpen(s)
      tag == IF Index(s, tagIfDB) = open THEN tagIfDB ELSE tagIfNotDB
      rest == SubSeq(s, open + Len(tag) + 1, Len(s))
      close == Index(rest, tagEndIf)
  IN IF open = -1 THEN ~Contains(s, tagEndIf)
     ELSE /\ ~Contains(SubSeq(s, 1, open), tagEndIf)
          /\ close # -1
          /\ FirstOpen(SubSeq(rest, 1, close)) = -1
          /\ WellFormedText(SubSeq(rest, close + Len(tagEndIf) + 1, Len(rest)))

HasMarker(s) ==
  Contains(s, tagIfDB) \/ Contains(s, tagIfNotDB) \/ Contains(s, tagEndIf)

\* C3: after a call, for either value of IncludeDB, no output file written
\* from a text template with well-formed, not nested blocks holds any of
\* the three marker strings.
C3_NoMarkerInOutput ==
  Succeeded =>
    \A p \in TextFilesWritten(opts) :
      WellFormedText(templateFS[p].data)
        => /\ OutputPath(opts, p) \in DOMAIN disk
           /\ ~HasMarker(disk[OutputPath(opts, p)].data)

\* C4: for a valid ModulePath, the output file of every text template that
\* holds the module-path token holds the token nowhere and the ModulePath
\* at least once.
C4_ModulePathReplacesToken ==
  (Succeeded /\ ValidModulePath(opts.ModulePath)) =>
    \A p \in TextFilesWritten(opts) :
      Contains(templateFS[p].data, placeholderModule)
        => /\ OutputPath(opts, p) \in DOMAIN disk
           /\ ~Contains(disk[OutputPath(opts, p)].data, placeholderModule)
           /\ Contains(disk[OutputPath(opts, p)].data, opts.ModulePath)

\* the paths of the tree under a project directory, relative to it
TreePaths(root) ==
  {TrimPrefix(q, root \o "/") : q \in {x \in DOMAIN disk : HasPrefix(x, root \o "/")}}

\* C5: after a successful call on a fresh target with IncludeDB = false,
\* nothing in the output tree lies under internal/database; with
\* IncludeDB = true every template file under internal/database has its
\* output file.
C5_DatabaseSubtree ==
  (Succeeded /\ runs[Len(runs)].fresh) =>
    IF opts.IncludeDB
    THEN \A p \in TemplateFiles :
           UnderDatabase(RelPath(p))
             => /\ OutputPath(opts, p) \in DOMAIN disk
                /\ ~disk[OutputPath(opts, p)].isDir
    ELSE \A rel \in TreePaths(opts.ProjectName) : ~UnderDatabase(rel)

C5_Witness ==
  /\ Succeeded
  /\ runs[Len(runs)].fresh
  /\ ~opts.IncludeDB
  /\ Join(opts.ProjectName, "internal/middleware/logger.go") \in DOMAIN disk
  /\ \E p \in TemplateFiles : UnderDatabase(RelPath(p))

\* C6: a template file that isBinaryFile classifies as binary is written
\* with the bytes of its source, whatever the Options and whatever tokens
\* or markers the bytes hold.
C6_BinaryCopiedUnchanged ==
  Succeeded =>
    \A p \in TemplateFiles :
      (isBinaryFile(p) /\ ~Pruned_Out(opts, p))
        => /\ OutputPath(opts, p) \in DOMAIN disk
           /\ disk[OutputPath(opts, p)] = Filenode(templateFS[p].data)

C6_Witness ==
  /\ Succeeded
  /\ \E p \in TemplateFiles :
       /\ isBinaryFile(p)
       /\ OutputPath(opts, p) \in DOMAIN disk
       /\ Contains(disk[OutputPath(opts, p)].data, placeholderModule)
       /\ Contains(disk[OutputPath(opts, p)].data, placeholderDevCommand)
       /\ Contains(disk[OutputPath(opts, p)].data, tagIfDB)

\* the tree under a project directory: relative path -> node
TreeOf(root) == [rel \in TreePaths(root) |-> disk[root \o "/" \o rel]]

\* runs i and j: two successful calls with the same Options but the project
\* directory, each into a fresh directory no other call has written to
TwinRuns(i, j) ==
  /\ runs[i].result = "ok" /\ runs[j].result = "ok"
  /\ runs[i].fresh /\ runs[j].fresh
  /\ runs[i].opts.ProjectName # runs[j].opts.ProjectName
  /\ [runs[i].opts EXCEPT !.ProjectName = ""] = [runs[j].opts EXCEPT !.ProjectName = ""]
  /\ \A k \in 1..Len(runs) :
       runs[k].opts.ProjectName \in {runs[i].opts.ProjectName, runs[j].opts.ProjectName}
         => k \in {i, j}

\* C7: two calls with the same Options into two fresh target roots leave
\* the same relative paths with the same content at each.
C7_Deterministic ==
  \A i, j \in 1..Len(runs) :
    (i < j /\ TwinRuns(i, j))
      => TreeOf(runs[i].opts.ProjectName) = TreeOf(runs[j].opts.ProjectName)

\* one step of a call, as C10 has it
AbortsAtFirstError ==
  \* a failed operation ends the call, which returns that operation's error
  /\ faults' # <<>> => (pc' = "done" /\ faults' = <<err'>>)
  \* a call that has returned touches nothing more
  /\ (pc = "done" /\ Len(runs') = Len(runs)) => UNCHANGED <<disk, todo, stdout>>
  \* the failing step leaves what was on disk as it was; it adds at most the
  \* target of the entry it was visiting (the directory made before the read
  \* of its entries failed, the file a failed write left truncated)
  /\ (faults = <<>> /\ faults' # <<>> /\ Len(runs') = Len(runs))
       => /\ todo' = todo
          /\ \A q \in DOMAIN disk :
               /\ q \in DOMAIN disk'
               /\ q # err'.path => disk'[q] = disk[q]
          /\ DOMAIN disk' \subseteq
               DOMAIN disk \cup {err'.path, Join(opts.ProjectName, RelPath(Head(todo)))}

\* C10: the materializer stops at the first I/O error and returns it; no
\* further entry is visited, nothing further is written and what was
\* written before stays on disk as it was.
C10_AbortsAtFirstError == [][AbortsAtFirstError]_vars

C10_Witness ==
  /\ pc = "done"
  /\ err = [op |-> "write", path |-> Join(opts.ProjectName, "go.mod")]
  /\ Join(opts.ProjectName, "assets/daisyui.mjs") \in DOMAIN disk
  /\ Join(opts.ProjectName, "docker-compose.yml") \in DOMAIN disk
  /\ Join(opts.ProjectName, "internal") \notin DOMAIN disk
  /\ todo # <<>>

\* the contents the last call computes for template file p from its Options
Computed(p) == fileContents(p, templateFS[p].data, opts, getReplacements(opts))

\* every path the last call has written holds a content that call computed
LastWriteWins ==
  Succeeded =>
    \A p \in TemplateFiles :
      ~Pruned_Out(opts, p)
        => /\ OutputPath(opts, p) \in DOMAIN disk
           /\ ~disk[OutputPath(opts, p)].isDir
           /\ disk[OutputPath(opts, p)].data \in Computed(p)

\* the call under way repeats, on the same target root, the Options of the
\* successful call before it
Rerun ==
  /\ pc = "walk"
  /\ Len(runs) >= 2
  /\ runs[Len(runs) - 1].result = "ok"
  /\ runs[Len(runs) - 1].opts = opts

\* a step of such a call that does not fail leaves the tree as the call
\* before it left it
RerunLeavesTree == (Rerun /\ faults' = <<>>) => disk' = disk

\* C11: every path written by the last call holds the content that call
\* computed from its Options (last write wins, no merge), and a second call
\* with the same Options leaves the tree the first call left.
C11_LastWriteWins == [](LastWriteWins) /\ [][RerunLeavesTree]_vars

-----------------------------------------------------------------------------
(* The output path rule, on template trees with sibling names that differ *)
(* by the .tmpl suffix                                                     *)

\* file names of one template directory, in the order go:embed lists them
SiblingNames == <<"go.mod", "go.mod.tmpl", "main.go", "main.go.tmpl">>

\* a template tree of two files
TwoFileTree(i, j) ==
  ("templates" :> Dirent(<<SiblingNames[i], SiblingNames[j]>>))
  @@ (Join("templates", SiblingNames[i]) :> File("// first github.com/goforge/scaffold\n"))
  @@ (Join("templates", SiblingNames[j]) :> File("// second github.com/goforge/scaffold\n"))

InitOutputPaths ==
  /\ templateFS \in {TwoFileTree(ij[1], ij[2]) :
                     ij \in {x \in (1..Len(SiblingNames)) \X (1..Len(SiblingNames)) : x[1] < x[2]}}
  /\ opts = Options("demo", "github.com/x/demo", FrontendHTMX, CSSFrameworkDaisyUI, TRUE)
  /\ disk = NoFiles
  /\ pc = "idle"
  /\ todo = <<>>
  /\ replacements = NoMap
  /\ err = NoErr
  /\ stdout = <<>>
  /\ faults = <<>>
  /\ runs = <<>>
  /\ cmd = NoCmd
  /\ visited = <<>>
  /\ segs = <<>>
  /\ content = ""
  /\ out = ""

SpecOutputPaths == InitOutputPaths /\ [][Next]_vars

\* C12: within one materialization no two template files are written to
\* the same output path: the paths a call has written (one progress line
\* per written file) are all different.
C12_OutputPathInjective ==
  \A i, j \in 1..Len(stdout) : i # j => stdout[i] # stdout[j]

-----------------------------------------------------------------------------
(* Claims about substitution *)

\* the tokens a call substitutes: the module-path token and the keys of the map
Tokens(m) == DOMAIN m \cup {placeholderModule}

\* the value a token stands for
TokenValue(o, m, k) == IF k = placeholderModule THEN o.ModulePath ELSE m[k]

\* the text s with every occurrence of every token replaced by its value in
\* one pass from left to right, the inserted values never scanned again
RECURSIVE SubstitutedOnce(_, _, _)
SubstitutedOnce(s, o, m) ==
  LET present == {k \in Tokens(m) : Contains(s, k)}
      first == MinOf({Index(s, k) : k \in present})
      tok == CHOOSE k \in present : Index(s, k) = first
  IN IF present = {} THEN s
     ELSE SubSeq(s, 1, first) \o TokenValue(o, m, tok)
            \o SubstitutedOnce(SubSeq(s, first + Len(tok) + 1, Len(s)), o, m)

\* C13: for a valid ModulePath, every written text file is its pruned
\* template text with every occurrence of every token replaced by its
\* value, and no inserted text (the ModulePath included) rewritten.
C13_LiteralExhaustiveNotRecursive ==
  (Succeeded /\ ValidModulePath(opts.ModulePath)) =>
    \A p \in TextFilesWritten(opts) :
      /\ OutputPath(opts, p) \in DOMAIN disk
      /\ disk[OutputPath(opts, p)].data =
           SubstitutedOnce(processConditionalBlocks(templateFS[p].data, opts),
                           opts, getReplacements(opts))

-----------------------------------------------------------------------------
(* The loop of removeBlock, one iteration a step *)

\* the start tag of the removeBlock call processConditionalBlocks makes
StartTagOf(o) == IF o.IncludeDB THEN tagIfNotDB ELSE tagIfDB

\* the content processConditionalBlocks hands to removeBlock
RemoveBlockInput(c, o) == IF o.IncludeDB THEN removeTags(c, tagIfDB, tagEndIf) ELSE c

\* a slip of the loop: no break when the first end tag does not lie after
\* the first start tag
removeBlockIterationNoBreak(c, startTag, endTag) ==
  LET startIndex == Index(c, startTag)
      endIndex == Index(c, endTag)
      endTagEnd == endIndex + Len(endTag)
  IN IF startIndex = -1 THEN [content |-> c, break |-> TRUE]
     ELSE IF endIndex = -1 THEN [content |-> c, break |-> TRUE]
     ELSE IF endIndex > startIndex
          THEN [content |-> SubSeq(c, 1, startIndex) \o SubSeq(c, endTagEnd + 1, Len(c)),
                break |-> FALSE]
          ELSE [content |-> c, break |-> FALSE]

\* one iteration of the for loop of removeBlock: the content it leaves and
\* whether it breaks
removeBlockIteration(c, startTag, endTag) ==
  LET startIndex == Index(c, startTag)
      endIndex == Index(c, endTag)
      endTagEnd == endIndex + Len(endTag)
  IN IF startIndex = -1 THEN [content |-> c, break |-> TRUE]
     ELSE IF endIndex = -1 THEN [content |-> c, break |-> TRUE]
     ELSE IF endIndex > startIndex
          THEN [content |-> SubSeq(c, 1, startIndex) \o SubSeq(c, endTagEnd + 1, Len(c)),
                break |-> FALSE]
          ELSE [content |-> c, break |-> TRUE]

InitRemoveBlock ==
  /\ segs \in SegLists
  /\ opts \in {Options("demo", "github.com/x/demo", FrontendHTMX,
                       CSSFrameworkDaisyUI, b) : b \in BOOLEAN}
  /\ content = RemoveBlockInput(Flatten(segs), opts)
  /\ out = content
  /\ pc = "loop"
  /\ templateFS = NoFiles
  /\ disk = NoFiles
  /\ todo = <<>>
  /\ replacements = NoMap
  /\ err = NoErr
  /\ stdout = <<>>
  /\ faults = <<>>
  /\ runs = <<>>
  /\ cmd = NoCmd
  /\ visited = <<>>

\* out is the loop's content variable
RemoveBlockIteration ==
  /\ pc = "loop"
  /\ LET r == removeBlockIteration(out, StartTagOf(opts), tagEndIf)
     IN /\ out' = r.content
        /\ pc' = IF r.break THEN "return" ELSE "loop"
  /\ UNCHANGED <<visited, cmd, templateFS, opts, disk, todo, replacements, err, stdout, faults,
                 runs, segs, content>>

NextRemoveBlock == RemoveBlockIteration

\* the loop runs in the calling goroutine: an iteration that can run, runs
SpecRemoveBlock ==
  InitRemoveBlock /\ [][NextRemoveBlock]_vars /\ WF_vars(NextRemoveBlock)

\* an iteration stops the loop or leaves a strictly shorter content
StopsOrShortens == pc' = "return" \/ Len(out') < Len(out)

\* C14: on every content, well-formed or not, the loop of removeBlock ends:
\* every iteration stops or strictly shortens the content, and the call
\* returns the content removeBlock computes.
C14_RemoveBlockTerminates ==
  /\ <>(pc = "return" /\ out = removeBlock(content, StartTagOf(opts), tagEndIf))
  /\ [][StopsOrShortens]_vars

C14_Witness ==
  /\ pc = "return"
  /\ Len(out) < Len(content)
  /\ Contains(out, StartTagOf(opts))
  /\ Contains(out, tagEndIf)

-----------------------------------------------------------------------------
(* Claims about malformed template texts *)

\* the text sl holds an opening marker tag that no closing marker follows
UnmatchedOpening(sl, tag) ==
  \E i \in 1..Len(sl) :
    /\ sl[i] = MarkerSeg(tag)
    /\ \A j \in (i + 1)..Len(sl) : sl[j].kind = "text"

\* C15: an opening marker with no closing marker after it, of either gate
\* and for either value of IncludeDB, is still in the text that
\* processConditionalBlocks returns.
C15_UnmatchedMarkerLeft ==
  pc = "return" =>
    \A tag \in {tagIfDB, tagIfNotDB} :
      UnmatchedOpening(segs, tag) => Contains(out, tag)

-----------------------------------------------------------------------------
(* The 'new' command: runNew *)

\* strings.ContainsAny: s holds one of the characters of chars
ContainsAny(s, chars) ==
  \E i \in 1..Len(s), j \in 1..Len(chars) : SubSeq(s, i, i) = SubSeq(chars, j, j)

\* validateProjectName: the error text, "" for nil
validateProjectName(s) ==
  IF s = "" THEN "project name is required"
  ELSE IF ContainsAny(s, " /\\") THEN "project name cannot contain spaces or slashes"
  ELSE ""

\* validateModulePath: the error text, "" for nil
validateModulePath(s) ==
  IF s = "" THEN "module path is required"
  ELSE IF ~Contains(s, "/") THEN "module path should contain at least one '/'"
  ELSE ""

\* what a user gives as project name, on the command line or to a prompt
TypedNames == {"demo", "my app", ""}

\* what a user gives as module path, on the command line or to a prompt
TypedModules == {"github.com/x/demo", "nomodule"}

\* the positional arguments cobra.MaximumNArgs(2) lets through
ArgLists ==
  {<<>>} \cup {<<n>> : n \in TypedNames}
         \cup {<<n, m>> : n \in TypedNames, m \in TypedModules}

\* an input form returns only a value its Validate function accepts
PromptNames == {n \in TypedNames : validateProjectName(n) = ""}

PromptModules == {m \in TypedModules : validateModulePath(m) = ""}

\* a target root left by an earlier project
ExistingProject ==
  ("demo" :> Dirnode) @@ ("demo/go.mod" :> Filenode("module old\n"))

\* os.Stat(filepath.Abs(name)) finds something: the empty name is the
\* working directory itself
Exists(d, name) == name = "" \/ name \in DOMAIN d

\* a slip of the check: the test of os.IsNotExist without its negation
targetTakenInverted(d, name, io) == ~(io = "stat" \/ Exists(d, name))

\* !os.IsNotExist(err) after os.Stat(absPath): something is there, or Stat
\* failed for another reason
targetTaken(d, name, io) == io = "stat" \/ Exists(d, name)

InitCLI ==
  /\ cmd \in {[NoCmd EXCEPT !.args = a, !.frontendFlag = f, !.cssFrameworkFlag = c,
                             !.pc = "start"] :
                a \in ArgLists, f \in {"", "react"}, c \in {"", CSSFrameworkBasecoat}}
  /\ templateFS = TemplateTree(Flatten(<<TextSeg("services:\n"), DBSeg("  db: postgres\n")>>))
  /\ disk \in {NoFiles, ExistingProject}
  /\ opts = Options("", "", "", "", FALSE)
  /\ visited = <<>>
  /\ pc = "idle"
  /\ todo = <<>>
  /\ replacements = NoMap
  /\ err = NoErr
  /\ stdout = <<>>
  /\ faults = <<>>
  /\ runs = <<>>
  /\ segs = <<>>
  /\ content = ""
  /\ out = ""

\* runNew up to its call of the generator
\*   answer: what the user gives to the forms shown, and the form the user
\*   aborts, if any; io: what filepath.Abs and os.Stat do
RunNew ==
  /\ cmd.pc = "start"
  /\ pc = "idle"
  /\ \E answer \in [name : PromptNames, module : PromptModules, frontend : Frontends,
                    css : CSSFrameworks, abort : {"", "input", "frontend", "css"}],
        io \in {"ok", "abs", "stat"} :
       LET args == cmd.args
           projectName == IF Len(args) >= 1 THEN args[1] ELSE answer.name
           modulePath == IF Len(args) >= 2 THEN args[2] ELSE answer.module
           chosenFrontend ==
             IF cmd.frontendFlag # "" THEN cmd.frontendFlag ELSE answer.frontend
           frontend ==
             IF chosenFrontend \notin Frontends THEN FrontendHTMX ELSE chosenFrontend
           chosenCSS ==
             IF cmd.cssFrameworkFlag # "" THEN cmd.cssFrameworkFlag ELSE answer.css
           cssFramework ==
             IF chosenCSS \notin CSSFrameworks THEN CSSFrameworkDaisyUI ELSE chosenCSS
           failure ==
             IF Len(args) < 2 /\ answer.abort = "input" THEN "user aborted"
             ELSE IF cmd.frontendFlag = "" /\ answer.abort = "frontend" THEN "user aborted"
             ELSE IF cmd.cssFrameworkFlag = "" /\ answer.abort = "css" THEN "user aborted"
             ELSE IF io = "abs" THEN "failed to resolve path"
             ELSE IF targetTaken(disk, projectName, io) THEN "already exists"
             ELSE ""
       IN IF failure # ""
          THEN /\ cmd' = [cmd EXCEPT !.pc = "returned", !.err = failure,
                                     !.projectName = projectName,
                                     !.modulePath = modulePath]
               /\ UNCHANGED <<visited, templateFS, opts, disk, pc, todo, replacements, err,
                              stdout, faults, runs, segs, content, out>>
          ELSE /\ cmd' = [cmd EXCEPT !.pc = "generating", !.projectName = projectName,
                                     !.modulePath = modulePath]
               /\ GenerateWithOptions(
                    Options(projectName, modulePath, frontend, cssFramework, FALSE))

\* the generator has returned: runNew returns its error, wrapped, or nil
RunNewReturn ==
  /\ cmd.pc = "generating"
  /\ pc = "done"
  /\ cmd' = [cmd EXCEPT !.pc = "returned",
                        !.err = IF err = NoErr THEN "" ELSE "generation failed"]
  /\ UNCHANGED <<visited, templateFS, opts, disk, pc, todo, replacements, err, stdout, faults,
                 runs, segs, content, out>>

NextCLI == RunNew \/ WalkDirFn \/ WalkDirReturn \/ RunNewReturn

SpecCLI == InitCLI /\ [][NextCLI]_vars

\* a project name as the Options record is assumed to have it
ValidProjectName(n) ==
  /\ n # ""
  /\ ~Contains(n, " ")
  /\ ~Contains(n, "/")
  /\ ~Contains(n, "\\")

\* C16: every Options value the command hands to the generator has a
\* non-empty ProjectName without spaces or slashes and a non-empty
\* ModulePath that holds a slash, whichever way the command was given them.
C16_OptionsValidated ==
  \A i \in 1..Len(runs) :
    /\ ValidProjectName(runs[i].opts.ProjectName)
    /\ ValidModulePath(runs[i].opts.ModulePath)

\* a step of the command, as C17 has it
ExistingTargetRefused ==
  \* runNew on a target that exists returns an error and calls nothing
  /\ (cmd.pc = "start" /\ cmd'.pc # "start" /\ Exists(disk, cmd'.projectName))
       => /\ cmd'.pc = "returned"
          /\ cmd'.err \in {"already exists", "user aborted", "failed to resolve path"}
          /\ runs' = runs
          /\ disk' = disk
          /\ pc' = "idle"
  \* and after it has returned nothing is created or written
  /\ cmd.pc = "returned" => (disk' = disk /\ runs' = runs)

\* C17: when the target project directory exists, the command returns an
\* error before the generator is invoked: no call of the generator is made
\* and nothing is created or written.
C17_ExistingTargetRefused == [][ExistingTargetRefused]_vars

C17_Witness ==
  /\ cmd.pc = "returned"
  /\ cmd.err = "already exists"
  /\ cmd.projectName = "demo"
  /\ disk = ExistingProject
  /\ runs = <<>>

-----------------------------------------------------------------------------
(* Claims about calls on a target root that exists *)

TemplateDirs == {p \in DOMAIN templateFS : templateFS[p].isDir}

\* d holds a directory at path
IsDirectory(d, path) == path \in DOMAIN d /\ d[path].isDir

\* C18: creating a directory that exists is no error and changes nothing:
\* os.MkdirAll of a target root that is there succeeds, and the callback,
\* on a template directory whose target is there, returns no error.
C18_MkdirAllIdempotent ==
  /\ \A n \in ProjectNames :
       IsDirectory(disk, n) => (CanMkdirAll(disk, n) /\ MkdirAll(disk, n) = disk)
  /\ runs # <<>> =>
       \A p \in TemplateDirs :
         IsDirectory(disk, Join(opts.ProjectName, RelPath(p)))
           => LET r == walkFn(p, templateFS[p], opts, disk, "ok", "")
              IN r.ret # "error" /\ r.disk = disk

C18_Witness ==
  /\ Succeeded
  /\ Len(runs) = 2
  /\ runs[1].result = "ok"
  /\ runs[1].opts.ProjectName = opts.ProjectName
  /\ ~runs[2].fresh
  /\ IsDirectory(disk, Join(opts.ProjectName, "internal/middleware"))

-----------------------------------------------------------------------------
(* Generate, the call with the default stack *)

\* a slip of Generate: IncludeDB left at its zero value
optionsOfGenerateNoDB(projectName, newModule) ==
  Options(projectName, newModule, FrontendHTMX, CSSFrameworkDaisyUI, FALSE)

\* the Options value Generate builds from its two arguments
optionsOfGenerate(projectName, newModule) ==
  Options(projectName, newModule, FrontendHTMX, CSSFrameworkDaisyUI, TRUE)

Generate(projectName, newModule) ==
  /\ GenerateWithOptions(optionsOfGenerate(projectName, newModule))
  /\ UNCHANGED cmd

\* a caller of Generate
GenerateCall == \E n \in CallNames, m \in ModulePaths : Generate(n, m)

InitGenerate ==
  /\ templateFS \in TemplateTrees
  /\ opts = Options("", "", "", "", FALSE)
  /\ disk = NoFiles
  /\ pc = "idle"
  /\ todo = <<>>
  /\ replacements = NoMap
  /\ err = NoErr
  /\ stdout = <<>>
  /\ faults = <<>>
  /\ runs = <<>>
  /\ cmd = NoCmd
  /\ visited = <<>>
  /\ segs = <<>>
  /\ content = ""
  /\ out = ""

NextGenerate == GenerateCall \/ WalkDirFn \/ WalkDirReturn

SpecGenerate == InitGenerate /\ [][NextGenerate]_vars

\* the relative output path of a template entry: a file loses a .tmpl suffix
RelOutputPath(p) ==
  IF templateFS[p].isDir THEN RelPath(p) ELSE TrimSuffix(RelPath(p), ".tmpl")

\* C19: after Generate(projectName, module) on a fresh target root the tree
\* is the one GenerateWithOptions leaves for the Options of projectName,
\* module, htmx, daisyui and IncludeDB = true: every template entry has its
\* output, the files under internal/database included, and nothing else is
\* there.
C19_GenerateIsDefaultOptions ==
  (Succeeded /\ runs[Len(runs)].fresh) =>
    LET o == Options(opts.ProjectName, opts.ModulePath, FrontendHTMX,
                     CSSFrameworkDaisyUI, TRUE)
    IN /\ TreePaths(opts.ProjectName)
            = {RelOutputPath(p) : p \in DOMAIN templateFS \ {"templates"}}
       /\ \A p \in TemplateDirs \ {"templates"} :
            disk[Join(opts.ProjectName, RelPath(p))] = Dirnode
       /\ \A p \in TemplateFiles :
            /\ ~disk[OutputPath(o, p)].isDir
            /\ disk[OutputPath(o, p)].data
                 \in fileContents(p, templateFS[p].data, o, getReplacements(o))

C19_Witness ==
  /\ Succeeded
  /\ runs[Len(runs)].fresh
  /\ opts.Frontend = FrontendHTMX /\ opts.CSSFramework = CSSFrameworkDaisyUI
  /\ opts.IncludeDB
  /\ Join(opts.ProjectName, "internal/database/migrations/00001_init.sql") \in DOMAIN disk
  /\ Join(opts.ProjectName, "internal/middleware/logger.go") \in DOMAIN disk

-----------------------------------------------------------------------------
(* Claims about the two values of IncludeDB *)

\* the relative paths of the files under a project directory
FilePaths(root) == {rel \in TreePaths(root) : ~disk[root \o "/" \o rel].isDir}

\* runs i and j: two successful calls into two fresh directories no other
\* call has written to, i with IncludeDB = false and j with IncludeDB = true,
\* the other options the same
WithoutAndWithDB(i, j) ==
  /\ runs[i].result = "ok" /\ runs[j].result = "ok"
  /\ runs[i].fresh /\ runs[j].fresh
  /\ runs[i].opts.ProjectName # runs[j].opts.ProjectName
  /\ ~runs[i].opts.IncludeDB /\ runs[j].opts.IncludeDB
  /\ [runs[i].opts EXCEPT !.ProjectName = "", !.IncludeDB = TRUE]
       = [runs[j].opts EXCEPT !.ProjectName = ""]
  /\ \A k \in 1..Len(runs) :
       runs[k].opts.ProjectName \in {runs[i].opts.ProjectName, runs[j].opts.ProjectName}
         => k \in {i, j}

\* C20: the relative output paths of a call with IncludeDB = false are among
\* those of the call with IncludeDB = true and the same other options, so
\* the second tree has at least as many files.
C20_PathsWithoutDBSubset ==
  \A i, j \in 1..Len(runs) :
    WithoutAndWithDB(i, j)
      => /\ TreePaths(runs[i].opts.ProjectName) \subseteq TreePaths(runs[j].opts.ProjectName)
         /\ FilePaths(runs[i].opts.ProjectName) \subseteq FilePaths(runs[j].opts.ProjectName)
         /\ Cardinality(FilePaths(runs[i].opts.ProjectName))
              <= Cardinality(FilePaths(runs[j].opts.ProjectName))

C20_Witness ==
  \E i, j \in 1..Len(runs) :
    /\ WithoutAndWithDB(i, j)
    /\ "internal/database/database.go" \in FilePaths(runs[j].opts.ProjectName)
    /\ "internal/database/database.go" \notin FilePaths(runs[i].opts.ProjectName)
    /\ "internal/middleware/logger.go" \in FilePaths(runs[i].opts.ProjectName)

-----------------------------------------------------------------------------
(* Claims about the values of the replacement map *)

\* C21: for every Options value, no value of the map that getReplacements
\* returns holds the module-path token, and no value holds a key of the map.
C21_ValuesHoldNoToken ==
  pc = "return" =>
    \A k \in DOMAIN replacements :
      /\ ~Contains(replacements[k], placeholderModule)
      /\ \A q \in DOMAIN replacements : ~Contains(replacements[k], q)

C21_Witness ==
  /\ pc = "return"
  /\ opts.Frontend = FrontendHTMXHyperscript
  /\ opts.CSSFramework = CSSFrameworkDaisyUI
  /\ Contains(replacements[placeholderFrontendScripts], "<!-- Hyperscript -->")
  /\ replacements[placeholderDaisyuiConfig] = ""

\* the texts the token loop can leave for template file p under the Options
\* and the map of the current call, one for each order the loop may take
AfterTokens(p) ==
  rangeReplaceAll(
    ReplaceAll(processConditionalBlocks(templateFS[p].data, opts),
               placeholderModule, opts.ModulePath),
    replacements, DOMAIN replacements)

\* C22: after the module-path substitution, applying the remaining tokens of
\* the map to a text gives the same result for every order of application.
C22_TokenOrderIrrelevant ==
  replacements # NoMap =>
    \A p \in TemplateFiles :
      ~isBinaryFile(p) => Cardinality(AfterTokens(p)) = 1

-----------------------------------------------------------------------------
(* Template trees with a directory named templates in the template root *)

\* the template root holds go.mod and a directory templates, which holds a
\* file or a directory with a file
NestedTemplatesTrees ==
  {("templates" :> Dirent(<<"go.mod", "templates">>))
     @@ ("templates/go.mod" :> File("module github.com/goforge/scaffold\n"))
     @@ ("templates/templates" :> Dirent(<<"index.html">>))
     @@ ("templates/templates/index.html" :> File("<html></html>\n")),
   ("templates" :> Dirent(<<"go.mod", "templates">>))
     @@ ("templates/go.mod" :> File("module github.com/goforge/scaffold\n"))
     @@ ("templates/templates" :> Dirent(<<"layouts">>))
     @@ ("templates/templates/layouts" :> Dirent(<<"base.html">>))
     @@ ("templates/templates/layouts/base.html" :> File("<html></html>\n"))}

InitNestedTemplates ==
  /\ templateFS \in NestedTemplatesTrees
  /\ opts \in {Options("demo", "github.com/x/demo", fc[1], fc[2], TRUE) :
                 fc \in StackChoices}
  /\ disk = NoFiles
  /\ pc = "idle"
  /\ todo = <<>>
  /\ replacements = NoMap
  /\ err = NoErr
  /\ stdout = <<>>
  /\ faults = <<>>
  /\ runs = <<>>
  /\ cmd = NoCmd
  /\ visited = <<>>
  /\ segs = <<>>
  /\ content = ""
  /\ out = ""

SpecNestedTemplates == InitNestedTemplates /\ [][Next]_vars

-----------------------------------------------------------------------------
(* Claims about the walk of one call *)

\* the template paths the callback has been called on
Seen == {visited[i] : i \in DOMAIN visited}

\* how many progress lines of the current call name the output of file p
TimesWritten(p) == Cardinality({i \in DOMAIN stdout : stdout[i] = RelOutputPath(p)})

\* C23: in one call, as long as no I/O operation has failed, every template
\* entry that the database skip does not prune is visited exactly once, a
\* directory is visited and created before any entry in it is visited, and
\* every template file that is not skipped is written exactly once.
C23_EachEntryOnce ==
  (runs # <<>> /\ faults = <<>>) =>
    /\ \A i, j \in DOMAIN visited : i < j => visited[i] # visited[j]
    /\ \A i \in DOMAIN visited :
         visited[i] # "templates"
           => /\ \E j \in 1..(i - 1) : visited[j] = Dir(visited[i])
              /\ (templateFS[visited[i]].isDir /\ ~Pruned_Out(opts, visited[i]))
                   => IsDirectory(disk, Join(opts.ProjectName, RelPath(visited[i])))
    /\ \A p \in TemplateFiles :
         ~Pruned_Out(opts, p) => TimesWritten(p) = (IF p \in Seen THEN 1 ELSE 0)
    /\ Succeeded => \A p \in DOMAIN templateFS : ~Pruned_Out(opts, p) => p \in Seen

\* the callback is about to write the file at the head of the walk
AboutToWrite ==
  /\ pc = "walk"
  /\ todo # <<>>
  /\ ~templateFS[Head(todo)].isDir
  /\ ~skipsDatabase(opts, RelPath(Head(todo)))

\* C24: whenever the callback is about to write a file, the parent directory
\* of the output path exists under the target root, so that os.WriteFile does
\* not fail for a missing parent directory.
C24_ParentExistsAtWrite ==
  AboutToWrite =>
    /\ IsDirectory(disk, Dir(OutputPath(opts, Head(todo))))
    /\ HasPrefix(Dir(OutputPath(opts, Head(todo))) \o "/", opts.ProjectName \o "/")
    /\ CanWriteFile(disk, OutputPath(opts, Head(todo)))

-----------------------------------------------------------------------------
(* The content transforms of the callback, applied to one text file *)

\* module paths with conditional markers in them
MarkedModulePaths ==
  {"github.com/x/demo", "x/" \o tagIfDB \o "y" \o tagEndIf, "x/" \o tagIfNotDB \o "y"}

TransformSegments ==
  {TextSeg("a"), TextSeg(placeholderModule), TextSeg(placeholderDevCommand),
   DBSeg(placeholderModule), NotDBSeg(placeholderModule), DBSeg(placeholderDevCommand)}

\* template texts of whole blocks, with the module token and one map token
TransformSegLists == UNION {[1..n -> TransformSegments] : n \in 0..MaxSegs}

InitTransform ==
  /\ segs \in TransformSegLists
  /\ content = Flatten(segs)
  /\ opts \in {Options("demo", m, FrontendHTMX, c, b) :
                 m \in MarkedModulePaths,
                 c \in {CSSFrameworkDaisyUI, CSSFrameworkBasecoat}, b \in BOOLEAN}
  /\ pc = "call"
  /\ out = ""
  /\ replacements = NoMap
  /\ templateFS = NoFiles
  /\ disk = NoFiles
  /\ todo = <<>>
  /\ err = NoErr
  /\ stdout = <<>>
  /\ faults = <<>>
  /\ runs = <<>>
  /\ cmd = NoCmd
  /\ visited = <<>>

\* the callback on the text file go.mod with the bytes content
TransformContent ==
  /\ pc = "call"
  /\ replacements' = getReplacements(opts)
  /\ out' \in fileContents("templates/go.mod", content, opts, getReplacements(opts))
  /\ pc' = "return"
  /\ UNCHANGED <<visited, cmd, templateFS, opts, disk, todo, err, stdout, faults,
                 runs, segs, content>>

NextTransform == TransformContent

SpecTransform == InitTransform /\ [][NextTransform]_vars

\* the number of times sub occurs in s, counted from the left without overlap
RECURSIVE Count(_, _)
Count(s, sub) ==
  IF ~Contains(s, sub) THEN 0
  ELSE 1 + Count(SubSeq(s, Index(s, sub) + Len(sub) + 1, Len(s)), sub)

\* C25: the transforms of a text file are applied in the order pruning,
\* module-path substitution, remaining tokens: the written text is the
\* substitution of the pruned raw text, and text that the module path brings
\* in is not pruned, however it looks.
C25_PruneThenSubstitute ==
  pc = "return" =>
    LET pruned == processConditionalBlocks(content, opts)
    IN /\ out = ReplaceAll(ReplaceAll(pruned, placeholderModule, opts.ModulePath),
                           placeholderDevCommand, replacements[placeholderDevCommand])
       /\ Count(out, opts.ModulePath) = Count(pruned, placeholderModule)

C25_Witness ==
  /\ pc = "return"
  /\ ~opts.IncludeDB
  /\ opts.ModulePath = "x/" \o tagIfDB \o "y" \o tagEndIf
  /\ segs = <<TextSeg(placeholderModule), DBSeg(placeholderDevCommand), TextSeg("a")>>
  /\ out = "x/" \o tagIfDB \o "y" \o tagEndIf \o "a"

-----------------------------------------------------------------------------
(* Template trees with entries next to internal/database *)

\* a template tree whose internal directory holds the database directory and
\* one more entry, whose name begins with "database"
DatabaseSiblingTrees ==
  {("templates" :> Dirent(<<"go.mod", "internal">>))
     @@ ("templates/go.mod" :> File("module github.com/goforge/scaffold\n"))
     @@ ("templates/internal" :> Dirent(<<"database", "database.md">>))
     @@ ("templates/internal/database" :> Dirent(<<"database.go">>))
     @@ ("templates/internal/database/database.go" :> File("package database\n"))
     @@ ("templates/internal/database.md" :> File("# Storage\n")),
   ("templates" :> Dirent(<<"go.mod", "internal">>))
     @@ ("templates/go.mod" :> File("module github.com/goforge/scaffold\n"))
     @@ ("templates/internal" :> Dirent(<<"database", "databases">>))
     @@ ("templates/internal/database" :> Dirent(<<"database.go">>))
     @@ ("templates/internal/database/database.go" :> File("package database\n"))
     @@ ("templates/internal/databases" :> Dirent(<<"seed.go">>))
     @@ ("templates/internal/databases/seed.go" :> File("package databases\n"))}

InitDatabaseSiblings ==
  /\ templateFS \in DatabaseSiblingTrees
  /\ opts \in {Options("demo", "github.com/x/demo", fc[1], fc[2], TRUE) :
                 fc \in StackChoices}
  /\ disk = NoFiles
  /\ pc = "idle"
  /\ todo = <<>>
  /\ replacements = NoMap
  /\ err = NoErr
  /\ stdout = <<>>
  /\ faults = <<>>
  /\ runs = <<>>
  /\ cmd = NoCmd
  /\ visited = <<>>
  /\ segs = <<>>
  /\ content = ""
  /\ out = ""

SpecDatabaseSiblings == InitDatabaseSiblings /\ [][Next]_vars

\* C26: with IncludeDB = false only the database subtree is pruned: a call
\* that returns nil has written every template file that is not
\* internal/database or an entry below it, also one whose path only begins
\* with the characters "internal/database".
C26_OnlyDatabaseSubtreePruned ==
  (Succeeded /\ ~opts.IncludeDB) =>
    \A p \in TemplateFiles :
      ~UnderDatabase(RelPath(p))
        => /\ OutputPath(opts, p) \in DOMAIN disk
           /\ TimesWritten(p) = 1

-----------------------------------------------------------------------------
(* Claims about what a call leaves of the target root *)

\* the paths a call with Options o writes files to
WrittenPaths(o) == {OutputPath(o, p) : p \in {f \in TemplateFiles : ~Pruned_Out(o, f)}}

\* one step of a call: what is on disk stays, and stays as it is unless the
\* call writes a file there
OnlyWrittenPathsChange ==
  \A q \in DOMAIN disk :
    /\ q \in DOMAIN disk'
    /\ disk'[q] # disk[q] => (q \in WrittenPaths(opts') /\ ~disk[q].isDir)

\* C27: a call changes only the paths it writes: a file or directory under
\* the target root that is no output path of the current call is neither
\* deleted nor modified, such as the internal/database files of an earlier
\* call with IncludeDB = true during a later call with IncludeDB = false.
C27_OnlyWrittenPathsChange == [][OnlyWrittenPathsChange]_vars

C27_Witness ==
  /\ Succeeded
  /\ Len(runs) = 2
  /\ runs[1].opts.ProjectName = runs[2].opts.ProjectName
  /\ runs[1].opts.IncludeDB /\ runs[1].result = "ok"
  /\ ~runs[2].opts.IncludeDB
  /\ Join(opts.ProjectName, "internal/database/database.go") \in DOMAIN disk
  /\ Join(opts.ProjectName, "internal/database/database.go") \notin WrittenPaths(opts)

\* the project directories of the calls made so far
TargetRoots == {runs[i].opts.ProjectName : i \in DOMAIN runs}

\* a template path below the template root, without the root and the slash
BelowRoot(p) == SubSeq(p, Len("templates/") + 1, Len(p))

\* the paths below a target root that the template tree stands for: every
\* entry but the template root, a file without a trailing .tmpl
TargetsBelowRoot ==
  {IF templateFS[p].isDir THEN BelowRoot(p)
   ELSE IF HasSuffix(BelowRoot(p), ".tmpl")
     THEN SubSeq(BelowRoot(p), 1, Len(BelowRoot(p)) - Len(".tmpl"))
     ELSE BelowRoot(p)
   : p \in DOMAIN templateFS \ {"templates"}}

\* C28: every path a call creates or writes is the target root or lies
\* under it, at ProjectName joined with the template path less the
\* "templates/" prefix (and less a trailing ".tmpl" for a file); the template
\* root itself never becomes a "templates" entry of the target.
C28_PathsUnderTargetRoot ==
  DOMAIN disk \subseteq
    TargetRoots \cup {nt[1] \o "/" \o nt[2] : nt \in TargetRoots \X TargetsBelowRoot}

C28_Witness ==
  /\ Succeeded
  /\ opts.ProjectName = "demo2"
  /\ "demo2/internal/middleware/logger.go" \in DOMAIN disk
  /\ IsDirectory(disk, "demo2/assets")
  /\ "demo2/templates" \notin DOMAIN disk
  /\ "demo2/internal/middleware/logger.go.tmpl" \notin DOMAIN disk

-----------------------------------------------------------------------------
(* Claims about the agreement of the resolved values *)

\* C29: for every Options value a library has a script tag in
\* FRONTEND_SCRIPTS exactly when it has a download line in SETUP_COMMAND and
\* exactly when it has one in DOCKER_SETUP_RUN; htmx is always among them, at
\* most one of Hyperscript and Alpine.js is, and CI_SETUP_COMMAND equals
\* SETUP_COMMAND.
C29_LibrariesAgree ==
  pc = "return" =>
    /\ \A lib \in Libraries :
         /\ lib \in ScriptLibs(replacements) <=> lib \in SetupLibs(replacements)
         /\ lib \in SetupLibs(replacements) <=> lib \in DockerLibs(replacements)
    /\ "htmx" \in ScriptLibs(replacements)
    /\ ~({"hyperscript", "alpinejs"} \subseteq ScriptLibs(replacements))
    /\ replacements[placeholderCiSetupCommand] = replacements[placeholderSetupCommand]

C29_Witness ==
  /\ pc = "return"
  /\ opts.Frontend = FrontendHTMXHyperscript
  /\ opts.CSSFramework = CSSFrameworkBasecoat
  /\ DockerLibs(replacements) = {"htmx", "hyperscript", "basecoat"}
  /\ ScriptLibs(replacements) = {"htmx", "hyperscript", "basecoat"}
  /\ replacements[placeholderCiSetupCommand] # ""

\* C30: the map depends on CSSFramework only through whether it is basecoat:
\* for every Frontend, getReplacements with templui returns the map it
\* returns with daisyui, and the map always has the same eleven keys.
C30_TemplUILikeDaisyUI ==
  pc = "return" =>
    /\ DOMAIN replacements = placeholders
    /\ Cardinality(DOMAIN replacements) = 11
    /\ opts.CSSFramework # CSSFrameworkBasecoat
         => /\ replacements = getReplacements([opts EXCEPT !.CSSFramework = CSSFrameworkDaisyUI])
            /\ replacements = getReplacements([opts EXCEPT !.CSSFramework = CSSFrameworkTemplUI])
    /\ opts.CSSFramework = CSSFrameworkBasecoat
         => replacements # getReplacements([opts EXCEPT !.CSSFramework = CSSFrameworkDaisyUI])

C30_Witness ==
  /\ pc = "return"
  /\ opts.CSSFramework = CSSFrameworkTemplUI
  /\ opts.Frontend = FrontendHTMXAlpine
  /\ replacements[placeholderDevCommand] = "@make -j2 dev-air dev-tailwind"
  /\ Contains(replacements[placeholderSetupCommand], "DaisyUI")

=============================================================================
